---- MODULE Spec2Model ----
(***************************************************************************)
(* Stock-ledger accounting engine of school-printers-inventory:            *)
(*   inventory/services.py            apply_transaction                    *)
(*   inventory/views.py               StockInCreateView, StockOutCreateView*)
(*   inventory/management/commands/rebuild_stock.py   Command.handle       *)
(* The two aggregate tables GlobalStock and BuildingStock are total        *)
(* functions from their unique keys to a row, NoRow standing for "no row". *)
(* The ledger is the sequence of saved StockTransaction rows.              *)
(***************************************************************************)
EXTENDS Integers, Sequences, FiniteSets, TLC

\* ------------------------------------------------------------- bounds
\* The largest qty of a direct apply_transaction call, the cap on a quantity
\* those calls build up, the largest qty of a creation request, the longest
\* ledger, and the number of manual edits of aggregate rows.
MaxQty == 2
MaxStock == 3
MaxReqQty == 2
MaxLedger == 2
MaxEdits == 1
\* The largest initial stock and the largest qty of the concurrent calls.
MaxRaceStock == 10
MaxRaceQty == 6
\* The largest initial stock of a building and the largest qty of the
\* concurrent calls on any keys.
MaxLockStock == 1
MaxLockQty == 1
\* The largest stock the concurrent creation requests start from, which is also
\* their largest qty.
MaxIngestStock == 1
\* The stock entered before a rebuild that runs next to a creation request, the
\* largest qty of that request, and the most by which the aggregate rows are
\* ahead of the ledger before the rebuild.
MaxLiveStock == 1
MaxLiveQty == 2
MaxDrift == 1

\* ------------------------------------------------------------ catalog
None == "none"

Cartridges == {"c1"}
Buildings == {"b1", "b2"}
Printers == {"p1", "p2"}

\* Printer.room.building: p1 stands in a room of b1, p2 in a room of b2.
PrinterBuilding(p) == IF p = "p1" THEN "b1" ELSE "b2"

\* Printer.printer_model.
PrinterModelOf(p) == IF p = "p1" THEN "m1" ELSE "m2"

\* CartridgeModel.compatible_printers: the cartridge fits the model of p1 and
\* not the model of p2.
CompatiblePrinters(c) == {"m1"}

\* The unique keys of GlobalStock and BuildingStock.
GlobalKeys == Cartridges \X BOOLEAN
BuildingKeys == Buildings \X Cartridges \X BOOLEAN

\* ------------------------------------------------------------- tables
\* A table maps each key to its row, or to NoRow when the table has none.
NoRow == [has |-> FALSE, qty |-> 0]
Row(q) == [has |-> TRUE, qty |-> q]

EmptyGlobal == [k \in GlobalKeys |-> NoRow]
EmptyBuilding == [k \in BuildingKeys |-> NoRow]

\* The keys that have a row.
Rows(t) == {k \in DOMAIN t : t[k].has}

\* The quantity of a key, an absent row counting as 0.
Qty(t, k) == IF t[k].has THEN t[k].qty ELSE 0

\* A plausible slip: get() in place of get_or_create(), which makes no row.
GetNoCreate(t, k) == t

\* QuerySet.get_or_create(..., defaults={"qty": 0}).
GetOrCreate(t, k) == IF t[k].has THEN t ELSE [t EXCEPT ![k] = Row(0)]

\* row.save(update_fields=["qty"]).
SaveQty(t, k, q) == [t EXCEPT ![k].qty = q]

\* ------------------------------------------------------- transactions
Tx(id, at, type, c, b, f, q, p) ==
    [id |-> id, created_at |-> at, tx_type |-> type, cartridge |-> c,
     building |-> b, on_balance |-> f, qty |-> q, printer |-> p]

NoTx == Tx(0, 0, None, None, None, FALSE, 0, None)

GlobalKeyOf(tx) == <<tx.cartridge, tx.on_balance>>

\* A plausible slip: the BuildingStock row is looked up without on_balance.
BuildingKeyIgnoringBalance(tx) == <<tx.building, tx.cartridge, FALSE>>

BuildingKeyOf(tx) == <<tx.building, tx.cartridge, tx.on_balance>>

\* A plausible slip: the before and after values are handed over swapped.
StockDeltaSwapped(gb, ga, bb, ba) ==
    [global_before |-> ga, global_after |-> gb,
     building_before |-> ba, building_after |-> bb]

\* StockDelta(global_before, global_after, building_before, building_after).
StockDelta(gb, ga, bb, ba) ==
    [global_before |-> gb, global_after |-> ga,
     building_before |-> bb, building_after |-> ba]

NoDelta == StockDelta(0, 0, 0, 0)

\* The outcome of one apply_transaction call: on an exception the atomic block
\* rolls back, rows made by get_or_create included, so g and b are the inputs.
Raised(g, b, exc, msg) ==
    [ok |-> FALSE, exc |-> exc, msg |-> msg, g |-> g, b |-> b, delta |-> NoDelta]

Returned(g, b, delta) ==
    [ok |-> TRUE, exc |-> None, msg |-> None, g |-> g, b |-> b, delta |-> delta]

\* A plausible slip: qty < 0 in place of qty <= 0.
ValidateTxZeroAllowed(tx) ==
    IF tx.cartridge = None THEN "no_cartridge"
    ELSE IF tx.building = None THEN "no_building"
    ELSE IF tx.qty < 0 THEN "bad_qty"
    ELSE None

\* The precondition checks of apply_transaction: the message of the
\* ValidationError raised, or None.
ValidateTx(tx) ==
    IF tx.cartridge = None THEN "no_cartridge"
    ELSE IF tx.building = None THEN "no_building"
    ELSE IF tx.qty <= 0 THEN "bad_qty"
    ELSE None

\* A plausible slip: the building-level check is missing.
OutInsufficientGlobalOnly(gb, bb, qty) ==
    IF gb < qty THEN "insufficient_global" ELSE None

\* The two checks of the OUT branch: the message of the ValidationError raised,
\* or None.
OutInsufficient(gb, bb, qty) ==
    IF gb < qty THEN "insufficient_global"
    ELSE IF bb < qty THEN "insufficient_building"
    ELSE None

\* A plausible slip: no atomic block, and the global row saved before the
\* building-level check, so a failure of that check leaves the global row
\* decremented.
ApplyTransactionNoRollback(g, b, tx) ==
    IF ValidateTx(tx) # None THEN Raised(g, b, "ValidationError", ValidateTx(tx))
    ELSE
      LET gk == GlobalKeyOf(tx)
          bk == BuildingKeyOf(tx)
          g1 == GetOrCreate(g, gk)
          b1 == GetOrCreate(b, bk)
          gb == g1[gk].qty
          bb == b1[bk].qty
      IN IF tx.tx_type = "IN"
         THEN Returned(SaveQty(g1, gk, gb + tx.qty), SaveQty(b1, bk, bb + tx.qty),
                       StockDelta(gb, gb + tx.qty, bb, bb + tx.qty))
         ELSE IF tx.tx_type = "OUT"
         THEN IF gb < tx.qty
              THEN Raised(g1, b1, "ValidationError", "insufficient_global")
              ELSE IF bb < tx.qty
              THEN Raised(SaveQty(g1, gk, gb - tx.qty), b1,
                          "ValidationError", "insufficient_building")
              ELSE Returned(SaveQty(g1, gk, gb - tx.qty), SaveQty(b1, bk, bb - tx.qty),
                            StockDelta(gb, gb - tx.qty, bb, bb - tx.qty))
         ELSE Raised(g1, b1, "ValidationError", "unknown_type")

\* apply_transaction(tx) run on the tables g, b.
ApplyTransaction(g, b, tx) ==
    IF ValidateTx(tx) # None THEN Raised(g, b, "ValidationError", ValidateTx(tx))
    ELSE
      LET gk == GlobalKeyOf(tx)
          bk == BuildingKeyOf(tx)
          g1 == GetOrCreate(g, gk)
          b1 == GetOrCreate(b, bk)
          gb == g1[gk].qty
          bb == b1[bk].qty
      IN IF tx.tx_type = "IN"
         THEN Returned(SaveQty(g1, gk, gb + tx.qty), SaveQty(b1, bk, bb + tx.qty),
                       StockDelta(gb, gb + tx.qty, bb, bb + tx.qty))
         ELSE IF tx.tx_type = "OUT"
         THEN IF OutInsufficient(gb, bb, tx.qty) # None
              THEN Raised(g, b, "ValidationError", OutInsufficient(gb, bb, tx.qty))
              ELSE Returned(SaveQty(g1, gk, gb - tx.qty), SaveQty(b1, bk, bb - tx.qty),
                            StockDelta(gb, gb - tx.qty, bb, bb - tx.qty))
         ELSE Raised(g, b, "ValidationError", "unknown_type")

\* -------------------------------------------------------------- state
VARIABLES
    gstock,     \* GlobalStock: [GlobalKeys -> row or NoRow]
    bstock,     \* BuildingStock: [BuildingKeys -> row or NoRow]
    ledger,     \* StockTransaction rows, in the order they were saved
    hooked,     \* whether the post_save receiver on_tx_created is connected
    last,       \* the most recent operation: its input and what it returned
    prevLive,   \* whether the operation before it was a completed live rebuild
    edits,      \* how many manual edits of aggregate rows were made
    proc,       \* the concurrent apply_transaction calls: position and locals
    locks,      \* the row locks: the call holding the lock of each key, or None
    stock0,     \* the stock the concurrent calls started from
    catalog     \* the Building, CartridgeModel and Printer rows that exist

rvars == <<proc, locks, stock0, catalog>>
svars == <<ledger, hooked, last, prevLive, edits>>
vars == <<gstock, bstock, ledger, hooked, last, prevLive, edits, proc, locks, stock0,
          catalog>>

Procs == {"t1", "t2"}

\* A call that has not started, with the transaction it was given.
Call(tx) ==
    [pc |-> "start", tx |-> tx, gb |-> 0, bb |-> 0, gq |-> 0, bq |-> 0,
     gdb |-> 0, bdb |-> 0, result |-> None]

\* Every quantity of both tables is at most MaxStock (the model's cap).
Bounded(g, b) ==
    /\ \A k \in GlobalKeys : g[k].qty <= MaxStock
    /\ \A k \in BuildingKeys : b[k].qty <= MaxStock

DiffStats(a, r, c) == [added |-> a, removed |-> r, changed_qty |-> c]
NoDiff == DiffStats(-1, -1, -1)

\* What an operation leaves in `last`.
Op(op, tx, outcome, msg, delta) ==
    [op |-> op, tx |-> tx, outcome |-> outcome, msg |-> msg, delta |-> delta,
     dry_run |-> FALSE, gdiff |-> NoDiff, bdiff |-> NoDiff, failed_id |-> 0,
     applied |-> <<>>, gremoved |-> {}, bremoved |-> {}, source |-> None]

\* Every building, cartridge and printer of the model exists.
FullCatalog ==
    [buildings |-> Buildings, cartridges |-> Cartridges, printers |-> Printers]

\* No request has been served and no concurrent call is in flight.
InitRequests ==
    /\ catalog = FullCatalog
    /\ ledger = <<>>
    /\ hooked = FALSE
    /\ last = Op("init", NoTx, None, None, NoDelta)
    /\ prevLive = FALSE
    /\ edits = 0

Init ==
    /\ gstock = EmptyGlobal
    /\ bstock = EmptyBuilding
    /\ InitRequests
    /\ proc = [p \in Procs |-> [Call(NoTx) EXCEPT !.pc = "done"]]
    /\ locks = [k \in GlobalKeys \cup BuildingKeys |-> None]
    /\ stock0 = 0

\* Whether `last` is a live rebuild that ran to its end.
IsLive(l) == l.op = "rebuild" /\ l.outcome = "live"

\* The transactions handed directly to apply_transaction: every well-formed one,
\* and representatives of each malformed kind.
ValidTxs ==
    {Tx(0, 0, t, c, b, f, q, None) :
        t \in {"IN", "OUT"}, c \in Cartridges, b \in Buildings,
        f \in BOOLEAN, q \in 1..MaxQty}

MalformedTxs ==
    {Tx(0, 0, t, None, "b1", FALSE, 1, None) : t \in {"IN", "OUT"}}
    \cup {Tx(0, 0, t, "c1", None, FALSE, 1, None) : t \in {"IN", "OUT"}}
    \cup {Tx(0, 0, t, "c1", "b1", FALSE, q, None) : t \in {"IN", "OUT"}, q \in {-1, 0}}
    \cup {Tx(0, 0, "XX", "c1", "b1", f, 1, None) : f \in BOOLEAN}

\* One call of apply_transaction(tx) in its own atomic block.
ApplyCall(tx) ==
    LET r == ApplyTransaction(gstock, bstock, tx)
    IN /\ Bounded(r.g, r.b)
       /\ gstock' = r.g
       /\ bstock' = r.b
       /\ last' = Op("apply", tx, IF r.ok THEN "ok" ELSE r.exc, r.msg, r.delta)
       /\ prevLive' = IsLive(last)
       /\ UNCHANGED <<ledger, hooked, edits>>
       /\ UNCHANGED rvars

\* ------------------------------------------------- creation requests
\* StockTransaction.clean().  In `self.printer and self.cartridge` the
\* descriptor of the non-null foreign key cartridge raises
\* RelatedObjectDoesNotExist when a printer is set and no cartridge is.
Clean(tx) ==
    IF tx.qty = 0 THEN "qty_zero"
    ELSE IF tx.tx_type = "OUT" /\ tx.printer = None THEN "printer_required"
    ELSE IF tx.printer = None THEN "ok"
    ELSE IF tx.cartridge = None THEN "RelatedObjectDoesNotExist"
    ELSE IF PrinterModelOf(tx.printer) \notin CompatiblePrinters(tx.cartridge)
         THEN "incompatible"
    ELSE "ok"

\* StockTransaction.full_clean(): the field validators, then clean(), which
\* runs whatever the validators found; an exception of clean() that is no
\* ValidationError passes through.
FullClean(tx) ==
    IF Clean(tx) = "RelatedObjectDoesNotExist" THEN "RelatedObjectDoesNotExist"
    ELSE IF tx.cartridge = None THEN "cartridge_required"
    ELSE IF tx.qty < 0 THEN "qty_min_value"
    ELSE Clean(tx)

\* A plausible slip: the receiver without its `if not created: return`.
OnTxCreatedAlways(g, b, tx, created) == ApplyTransaction(g, b, tx)

\* The post_save receiver of StockTransaction.
OnTxCreated(g, b, tx, created) ==
    IF ~created THEN Returned(g, b, NoDelta) ELSE ApplyTransaction(g, b, tx)

\* tx.save(): the row is inserted and post_save is sent to its receivers.
SaveTx(g, b, led, tx, hk) ==
    LET r == IF hk THEN OnTxCreated(g, b, tx, TRUE) ELSE Returned(g, b, NoDelta)
    IN [ok |-> r.ok, exc |-> r.exc, msg |-> r.msg, g |-> r.g, b |-> r.b,
        ledger |-> IF r.ok THEN Append(led, tx) ELSE led]

\* A plausible slip: no atomic block around the three calls, so the saved row
\* stays when apply_transaction raises.
CreateNoAtomic(g, b, led, tx, hk) ==
    LET fc == FullClean(tx)
        s == SaveTx(g, b, led, tx, hk)
        r == ApplyTransaction(s.g, s.b, tx)
    IN IF fc # "ok"
       THEN [outcome |-> "form_invalid", msg |-> fc, g |-> g, b |-> b, ledger |-> led]
       ELSE IF ~s.ok
       THEN [outcome |-> "server_error", msg |-> s.msg, g |-> g, b |-> b, ledger |-> led]
       ELSE IF ~r.ok
       THEN [outcome |-> "server_error", msg |-> r.msg, g |-> s.g, b |-> s.b,
             ledger |-> s.ledger]
       ELSE [outcome |-> "redirect", msg |-> None, g |-> r.g, b |-> r.b, ledger |-> s.ledger]

\* with transaction.atomic(): tx.full_clean(); tx.save(); apply_transaction(tx),
\* and the handlers of form_valid around the block.  An exception rolls the
\* block back.  A ValidationError of full_clean carries an error dict and ends
\* in form_invalid; one raised by apply_transaction carries a plain message, on
\* which e.message_dict raises AttributeError out of the handler.
CreateAtomic(g, b, led, tx, hk) ==
    LET fc == FullClean(tx)
        s == SaveTx(g, b, led, tx, hk)
        r == ApplyTransaction(s.g, s.b, tx)
    IN IF fc # "ok"
       THEN [outcome |-> "form_invalid", msg |-> fc, g |-> g, b |-> b, ledger |-> led]
       ELSE IF ~s.ok
       THEN [outcome |-> "server_error", msg |-> s.msg, g |-> g, b |-> b, ledger |-> led]
       ELSE IF ~r.ok
       THEN [outcome |-> "server_error", msg |-> r.msg, g |-> g, b |-> b, ledger |-> led]
       ELSE [outcome |-> "redirect", msg |-> None, g |-> r.g, b |-> r.b, ledger |-> s.ledger]

\* The id and created_at a row gets when it is saved.
NextId(led) == Len(led) + 1

\* StockInCreateView.form_valid.
StockInCreate(c, q, b, f) ==
    LET tx == Tx(NextId(ledger), NextId(ledger), "IN", c, b, f, q, None)
        r == CreateAtomic(gstock, bstock, ledger, tx, hooked)
    IN /\ Len(ledger) < MaxLedger
       /\ c \in catalog.cartridges
       /\ b \in catalog.buildings
       /\ gstock' = r.g
       /\ bstock' = r.b
       /\ ledger' = r.ledger
       /\ last' = Op("stock_in", NoTx, r.outcome, r.msg, NoDelta)
       /\ prevLive' = IsLive(last)
       /\ UNCHANGED <<hooked, edits>>
       /\ UNCHANGED rvars

\* A plausible slip: the stock is always taken from the printer's building.
DebitedBuildingOfPrinter(source_building, destination_building) ==
    destination_building

\* tx.building = source_building or destination_building.
DebitedBuilding(source_building, destination_building) ==
    IF source_building # None THEN source_building ELSE destination_building

\* StockOutCreateView.form_valid.  `last` keeps the source building chosen in
\* an accepted request.
StockOutCreate(p, src, c, f, q) ==
    LET destination_building == IF p # None THEN PrinterBuilding(p) ELSE None
        building == DebitedBuilding(src, destination_building)
        tx == Tx(NextId(ledger), NextId(ledger), "OUT", c, building, f, q, p)
        bqty == IF building = None THEN 0 ELSE Qty(bstock, BuildingKeyOf(tx))
        r == IF bqty < q
             THEN [outcome |-> "form_invalid", msg |-> "insufficient_precheck",
                   g |-> gstock, b |-> bstock, ledger |-> ledger]
             ELSE CreateAtomic(gstock, bstock, ledger, tx, hooked)
    IN /\ Len(ledger) < MaxLedger
       /\ c \in catalog.cartridges
       /\ p \in catalog.printers \cup {None}
       /\ src \in catalog.buildings \cup {None}
       /\ gstock' = r.g
       /\ bstock' = r.b
       /\ ledger' = r.ledger
       /\ last' = [Op("stock_out", NoTx, r.outcome, r.msg, NoDelta) EXCEPT
                       !.source = IF r.outcome = "redirect" THEN src ELSE None]
       /\ prevLive' = IsLive(last)
       /\ UNCHANGED <<hooked, edits>>
       /\ UNCHANGED rvars

\* tx.save(update_fields=...) of a row that exists: post_save is sent with
\* created = False.
ResaveTx(g, b, tx, hk) ==
    IF hk THEN OnTxCreated(g, b, tx, FALSE) ELSE Returned(g, b, NoDelta)

\* The loop of backfill_tx_snapshots over the rows it changes.
RECURSIVE BackfillSaves(_, _, _, _)
BackfillSaves(g, b, entries, hk) ==
    IF entries = <<>> THEN Returned(g, b, NoDelta)
    ELSE LET r == ResaveTx(g, b, Head(entries), hk)
         IN IF ~r.ok THEN r ELSE BackfillSaves(r.g, r.b, Tail(entries), hk)

\* backfill_tx_snapshots.handle: the rows whose snapshot fields it fills in
\* (the set `changed`, by id) are saved again in id order, unless it is a dry
\* run, which saves nothing.  `last.applied` keeps the ids of the saved rows.
Backfill(dry_run, changed) ==
    LET entries == IF dry_run THEN <<>>
                   ELSE SelectSeq(ledger, LAMBDA e : e.id \in changed)
        r == BackfillSaves(gstock, bstock, entries, hooked)
    IN /\ changed \subseteq {ledger[i].id : i \in 1..Len(ledger)}
       /\ changed # {}
       /\ gstock' = IF r.ok THEN r.g ELSE gstock
       /\ bstock' = IF r.ok THEN r.b ELSE bstock
       /\ last' = [Op("backfill", NoTx, IF r.ok THEN "ok" ELSE r.exc, r.msg, NoDelta)
                       EXCEPT !.dry_run = dry_run,
                              !.applied = [i \in 1..Len(entries) |-> entries[i].id]]
       /\ prevLive' = IsLive(last)
       /\ UNCHANGED <<ledger, hooked, edits>>
       /\ UNCHANGED rvars

\* A call of StockTransaction.clean() on a record that is not saved.
CleanCall(tx) ==
    /\ last' = Op("clean", tx, Clean(tx), None, NoDelta)
    /\ prevLive' = IsLive(last)
    /\ UNCHANGED <<gstock, bstock, ledger, hooked, edits>>
    /\ UNCHANGED rvars

\* ------------------------------------------------------------ rebuild
\* Whether entry x comes before entry y in order_by("created_at", "id").
Before(x, y) ==
    \/ x.created_at < y.created_at
    \/ x.created_at = y.created_at /\ x.id < y.id

RECURSIVE SortEntries(_)
SortEntries(S) ==
    IF S = {} THEN <<>>
    ELSE LET m == CHOOSE x \in S : \A y \in S \ {x} : Before(x, y)
         IN <<m>> \o SortEntries(S \ {m})

\* A plausible slip: no order_by, the rows come in the order they were stored.
LedgerAsStored(led) == [i \in 1..Len(led) |-> led[i]]

\* StockTransaction.objects.order_by("created_at", "id").
OrderedLedger(led) == SortEntries({led[i] : i \in 1..Len(led)})

\* The replay loop: apply_transaction for every entry, stopping at the first
\* one that raises.
\* A plausible slip: the exception of an entry is swallowed and the loop goes on.
RECURSIVE ReplaySkipFailed(_, _, _)
ReplaySkipFailed(g, b, entries) ==
    IF entries = <<>>
    THEN [ok |-> TRUE, g |-> g, b |-> b, failed_id |-> 0, msg |-> None, applied |-> <<>>]
    ELSE LET r == ApplyTransaction(g, b, Head(entries))
             rest == ReplaySkipFailed(r.g, r.b, Tail(entries))
         IN [rest EXCEPT !.applied = IF r.ok THEN <<Head(entries).id>> \o @ ELSE @]

RECURSIVE Replay(_, _, _)
Replay(g, b, entries) ==
    IF entries = <<>>
    THEN [ok |-> TRUE, g |-> g, b |-> b, failed_id |-> 0, msg |-> None, applied |-> <<>>]
    ELSE LET r == ApplyTransaction(g, b, Head(entries))
             rest == Replay(r.g, r.b, Tail(entries))
         IN IF ~r.ok
            THEN [ok |-> FALSE, g |-> g, b |-> b, failed_id |-> Head(entries).id,
                  msg |-> r.msg, applied |-> <<>>]
            ELSE IF ~rest.ok THEN rest
            ELSE [rest EXCEPT !.applied = <<Head(entries).id>> \o @]

\* A plausible slip: added and removed are computed the wrong way round.
DiffSwapped(old, new) ==
    LET old_keys == Rows(old)
        new_keys == Rows(new)
    IN DiffStats(Cardinality(old_keys \ new_keys),
                 Cardinality(new_keys \ old_keys),
                 Cardinality({k \in old_keys \cap new_keys : old[k].qty # new[k].qty}))

\* _diff(old, new).
Diff(old, new) ==
    LET old_keys == Rows(old)
        new_keys == Rows(new)
    IN DiffStats(Cardinality(new_keys \ old_keys),
                 Cardinality(old_keys \ new_keys),
                 Cardinality({k \in old_keys \cap new_keys : old[k].qty # new[k].qty}))

\* A plausible slip: the tables are not emptied before the replay.
DeleteNone(t) == t

\* Model.objects.all().delete().
DeleteAll(t) == [k \in DOMAIN t |-> NoRow]

\* The itemized detail of the rows that will be deleted: each key present
\* before and absent after, with the qty it had before.
RemovedDetail(old, new) == {<<k, old[k].qty>> : k \in Rows(old) \ Rows(new)}

\* A plausible slip: the rollback of a dry run is forgotten.
SetRollbackNever(dry_run, old, new) == new

\* db_transaction.set_rollback(True) at the end of a dry run: the atomic block
\* leaves the table as it was; a live run commits the rebuilt table.
SetRollback(dry_run, old, new) == IF dry_run THEN old ELSE new

\* What a rebuild leaves in `last`.
RebuildOp(dry_run, outcome, gd, bd, failed_id) ==
    [op |-> "rebuild", tx |-> NoTx, outcome |-> outcome, msg |-> None, delta |-> NoDelta,
     dry_run |-> dry_run, gdiff |-> gd, bdiff |-> bd, failed_id |-> failed_id,
     applied |-> <<>>, gremoved |-> {}, bremoved |-> {}, source |-> None]

\* Command.handle of rebuild_stock.
Rebuild(dry_run) ==
    LET total == Len(ledger)
        old_global == gstock
        old_building == bstock
        rp == Replay(DeleteAll(gstock), DeleteAll(bstock), OrderedLedger(ledger))
    IN /\ prevLive' = IsLive(last)
       /\ UNCHANGED <<ledger, hooked, edits>>
       /\ UNCHANGED rvars
       /\ IF total = 0
          THEN /\ UNCHANGED <<gstock, bstock>>
               /\ last' = RebuildOp(dry_run, "nothing", NoDiff, NoDiff, 0)
          ELSE IF ~rp.ok
          THEN /\ UNCHANGED <<gstock, bstock>>
               /\ last' = RebuildOp(dry_run, "CommandError", NoDiff, NoDiff, rp.failed_id)
          ELSE /\ gstock' = SetRollback(dry_run, gstock, rp.g)
               /\ bstock' = SetRollback(dry_run, bstock, rp.b)
               /\ last' = [RebuildOp(dry_run, IF dry_run THEN "dry_run" ELSE "live",
                                     Diff(old_global, rp.g), Diff(old_building, rp.b), 0)
                             EXCEPT !.applied = rp.applied,
                                    !.gremoved = RemovedDetail(old_global, rp.g),
                                    !.bremoved = RemovedDetail(old_building, rp.b)]

\* A manual edit of one aggregate row in the database: the row is removed, or
\* set to a quantity the column admits (PositiveIntegerField: qty >= 0).
ManualEdit(global, k, v) ==
    /\ edits < MaxEdits
    /\ edits' = edits + 1
    /\ IF global
       THEN /\ k \in GlobalKeys
            /\ gstock' = [gstock EXCEPT ![k] = v]
            /\ UNCHANGED bstock
       ELSE /\ k \in BuildingKeys
            /\ bstock' = [bstock EXCEPT ![k] = v]
            /\ UNCHANGED gstock
    /\ last' = Op("manual_edit", NoTx, None, None, NoDelta)
    /\ prevLive' = FALSE
    /\ UNCHANGED <<ledger, hooked>>
    /\ UNCHANGED rvars

\* ------------------------------------------------- catalog deletion
\* A plausible slip: StockTransaction.building with on_delete=SET_NULL, so that
\* no ledger entry protects a building.
ProtectedBuildingByPrintersOnly(b, led, cat) ==
    \E p \in cat.printers : PrinterBuilding(p) = b

\* Whether the collector of Building b finds a protected row: a Printer in one
\* of its rooms (Room cascades, Printer.room is PROTECT) or a StockTransaction
\* of the building (PROTECT).
ProtectedBuilding(b, led, cat) ==
    \/ \E p \in cat.printers : PrinterBuilding(p) = b
    \/ \E i \in 1..Len(led) : led[i].building = b

\* Whether the collector of CartridgeModel c finds a protected row: a
\* StockTransaction of the cartridge.
ProtectedCartridge(c, led) == \E i \in 1..Len(led) : led[i].cartridge = c

\* Whether the collector of Printer p finds a protected row: a StockTransaction
\* that names the printer.
ProtectedPrinter(p, led) == \E i \in 1..Len(led) : led[i].printer = p

\* The cascade of a Building onto BuildingStock.
CascadeBuilding(t, b) == [k \in DOMAIN t |-> IF k[1] = b THEN NoRow ELSE t[k]]

\* The cascade of a CartridgeModel onto GlobalStock (the cartridge is the first
\* field of the key) and onto BuildingStock (the second).
CascadeCartridge(t, c, field) ==
    [k \in DOMAIN t |-> IF k[field] = c THEN NoRow ELSE t[k]]

\* BuildingDelete: obj.delete() raises ProtectedError and deletes nothing when
\* a protected row is found; otherwise the building goes with its rooms and
\* its BuildingStock rows.
DeleteBuilding(b) ==
    LET blocked == ProtectedBuilding(b, ledger, catalog)
    IN /\ b \in catalog.buildings
       /\ catalog' = IF blocked THEN catalog
                     ELSE [catalog EXCEPT !.buildings = @ \ {b}]
       /\ bstock' = IF blocked THEN bstock ELSE CascadeBuilding(bstock, b)
       /\ last' = Op("delete_building", NoTx,
                     IF blocked THEN "ProtectedError" ELSE "deleted", None, NoDelta)
       /\ prevLive' = IsLive(last)
       /\ UNCHANGED <<gstock, ledger, hooked, edits, proc, locks, stock0>>

\* CartridgeModelDelete: the cartridge goes with its GlobalStock and
\* BuildingStock rows unless a StockTransaction protects it.
DeleteCartridge(c) ==
    LET blocked == ProtectedCartridge(c, ledger)
    IN /\ c \in catalog.cartridges
       /\ catalog' = IF blocked THEN catalog
                     ELSE [catalog EXCEPT !.cartridges = @ \ {c}]
       /\ gstock' = IF blocked THEN gstock ELSE CascadeCartridge(gstock, c, 1)
       /\ bstock' = IF blocked THEN bstock ELSE CascadeCartridge(bstock, c, 2)
       /\ last' = Op("delete_cartridge", NoTx,
                     IF blocked THEN "ProtectedError" ELSE "deleted", None, NoDelta)
       /\ prevLive' = IsLive(last)
       /\ UNCHANGED <<ledger, hooked, edits, proc, locks, stock0>>

\* PrinterDelete: the printer goes unless a StockTransaction protects it.
DeletePrinter(p) ==
    LET blocked == ProtectedPrinter(p, ledger)
    IN /\ p \in catalog.printers
       /\ catalog' = IF blocked THEN catalog
                     ELSE [catalog EXCEPT !.printers = @ \ {p}]
       /\ last' = Op("delete_printer", NoTx,
                     IF blocked THEN "ProtectedError" ELSE "deleted", None, NoDelta)
       /\ prevLive' = IsLive(last)
       /\ UNCHANGED <<gstock, bstock, ledger, hooked, edits, proc, locks, stock0>>

\* ----------------------------------------------------- specifications
\* The inputs of the creation requests: every building, a printer of b1 (so
\* that issuing from b2 is a cross-building issuance) or none, and batches that
\* are not on the balance sheet.
RequestPrinters == {"p1", None}
RequestFlags == {FALSE}

\* The rows a manual edit touches: those of the batches the requests handle.
EditKeys == {k \in GlobalKeys \cup BuildingKeys : k[Len(k)] \in RequestFlags}

Requests ==
    \/ \E c \in Cartridges, q \in 0..MaxReqQty, b \in Buildings, f \in RequestFlags :
          StockInCreate(c, q, b, f)
    \/ \E p \in RequestPrinters, src \in Buildings \cup {None},
          c \in Cartridges, f \in RequestFlags, q \in 0..MaxReqQty :
          StockOutCreate(p, src, c, f, q)

Next ==
    \E tx \in ValidTxs \cup MalformedTxs : ApplyCall(tx)

Spec == Init /\ [][Next]_vars

NextRebuild ==
    \/ Requests
    \/ \E dry_run \in BOOLEAN : Rebuild(dry_run)
    \/ \E global \in BOOLEAN, k \in EditKeys,
          v \in {NoRow, Row(0), Row(MaxStock)} : ManualEdit(global, k, v)

SpecRebuild == Init /\ [][NextRebuild]_vars

\* The creation requests, rebuilds and the deletion of catalog rows.
NextCatalog ==
    \/ Requests
    \/ \E dry_run \in BOOLEAN : Rebuild(dry_run)
    \/ \E b \in Buildings : DeleteBuilding(b)
    \/ \E c \in Cartridges : DeleteCartridge(c)
    \/ \E p \in Printers : DeletePrinter(p)

SpecCatalog == Init /\ [][NextCatalog]_vars

\* The post_save receiver is registered when inventory.signals is imported,
\* which the application configuration decides: both cases are started from.
InitHook ==
    /\ gstock = EmptyGlobal
    /\ bstock = EmptyBuilding
    /\ ledger = <<>>
    /\ hooked \in BOOLEAN
    /\ last = Op("init", NoTx, None, None, NoDelta)
    /\ prevLive = FALSE
    /\ edits = 0
    /\ proc = [p \in Procs |-> [Call(NoTx) EXCEPT !.pc = "done"]]
    /\ catalog = FullCatalog
    /\ locks = [k \in GlobalKeys \cup BuildingKeys |-> None]
    /\ stock0 = 0

\* The records clean() is called on.
CleanInputs ==
    {Tx(0, 0, t, c, "b1", FALSE, q, p) :
        t \in {"IN", "OUT"}, c \in Cartridges \cup {None},
        q \in -1..1, p \in Printers \cup {None}}

\* The creation requests with a printer of either model, the backfill command
\* and clean().
NextHook ==
    \/ \E c \in Cartridges, q \in 0..MaxReqQty, b \in Buildings, f \in RequestFlags :
          StockInCreate(c, q, b, f)
    \/ \E p \in Printers \cup {None}, src \in Buildings \cup {None},
          c \in Cartridges, f \in RequestFlags, q \in 0..MaxReqQty :
          StockOutCreate(p, src, c, f, q)
    \/ \E dry_run \in BOOLEAN, changed \in SUBSET (1..MaxLedger) :
          Backfill(dry_run, changed)
    \/ \E tx \in CleanInputs : CleanCall(tx)

SpecHook == InitHook /\ [][NextHook]_vars

\* ------------------------------------------------- concurrent calls
\* A plausible slip: get_or_create without select_for_update, which waits for
\* no lock.
CanLockAlways(p, k) == TRUE

\* SELECT ... FOR UPDATE returns once no other transaction holds the row lock.
CanLock(p, k) == locks[k] \in {None, p}

\* A plausible slip: a transaction that ends keeps its row locks.
ReleasedNothing(p) == locks

\* The locks with those of call p released (its transaction has ended).
Released(p) == [k \in DOMAIN locks |-> IF locks[k] = p THEN None ELSE locks[k]]

\* Lines 34-41: the precondition checks.
RValidate(p) ==
    /\ proc[p].pc = "start"
    /\ proc' = [proc EXCEPT ![p] =
                  IF ValidateTx(proc[p].tx) # None
                  THEN [@ EXCEPT !.pc = "done", !.result = ValidateTx(proc[p].tx)]
                  ELSE [@ EXCEPT !.pc = "lock_g"]]
    /\ UNCHANGED <<gstock, bstock, locks, stock0, catalog>>
    /\ UNCHANGED svars

\* Lines 45-49: GlobalStock.objects.select_for_update().get_or_create(...).
\* Under READ COMMITTED the row is read as last committed once the lock is held.
RLockGlobal(p) ==
    LET gk == GlobalKeyOf(proc[p].tx)
    IN /\ proc[p].pc = "lock_g"
       /\ CanLock(p, gk)
       /\ locks' = [locks EXCEPT ![gk] = p]
       /\ proc' = [proc EXCEPT ![p] =
                     [@ EXCEPT !.pc = "lock_b", !.gb = Qty(gstock, gk),
                               !.gq = Qty(gstock, gk), !.gdb = Qty(gstock, gk)]]
       /\ UNCHANGED <<gstock, bstock, stock0, catalog>>
       /\ UNCHANGED svars

\* Lines 50-55: BuildingStock.objects.select_for_update().get_or_create(...).
RLockBuilding(p) ==
    LET bk == BuildingKeyOf(proc[p].tx)
    IN /\ proc[p].pc = "lock_b"
       /\ CanLock(p, bk)
       /\ locks' = [locks EXCEPT ![bk] = p]
       /\ proc' = [proc EXCEPT ![p] =
                     [@ EXCEPT !.pc = "check", !.bb = Qty(bstock, bk),
                               !.bq = Qty(bstock, bk), !.bdb = Qty(bstock, bk)]]
       /\ UNCHANGED <<gstock, bstock, stock0, catalog>>
       /\ UNCHANGED svars

\* Lines 57-77: the new quantities, or the ValidationError that ends the atomic
\* block with a rollback.
RCheck(p) ==
    LET c == proc[p]
        tx == c.tx
        fail == IF tx.tx_type = "IN" THEN None
                ELSE IF tx.tx_type = "OUT" THEN OutInsufficient(c.gb, c.bb, tx.qty)
                ELSE "unknown_type"
        d == IF tx.tx_type = "IN" THEN tx.qty ELSE 0 - tx.qty
    IN /\ c.pc = "check"
       /\ IF fail # None
          THEN /\ proc' = [proc EXCEPT ![p] = [@ EXCEPT !.pc = "done", !.result = fail]]
               /\ locks' = Released(p)
          ELSE /\ proc' = [proc EXCEPT ![p] =
                             [@ EXCEPT !.pc = "save_g", !.gq = c.gb + d, !.bq = c.bb + d]]
               /\ UNCHANGED locks
       /\ UNCHANGED <<gstock, bstock, stock0, catalog>>
       /\ UNCHANGED svars

\* Line 79: g.save(update_fields=["qty"]), not yet committed.
RSaveGlobal(p) ==
    /\ proc[p].pc = "save_g"
    /\ proc' = [proc EXCEPT ![p] = [@ EXCEPT !.pc = "save_b", !.gdb = proc[p].gq]]
    /\ UNCHANGED <<gstock, bstock, locks, stock0, catalog>>
    /\ UNCHANGED svars

\* Line 80: b.save(update_fields=["qty"]), not yet committed.
RSaveBuilding(p) ==
    /\ proc[p].pc = "save_b"
    /\ proc' = [proc EXCEPT ![p] = [@ EXCEPT !.pc = "commit", !.bdb = proc[p].bq]]
    /\ UNCHANGED <<gstock, bstock, locks, stock0, catalog>>
    /\ UNCHANGED svars

\* Line 20: the atomic block ends: the rows written become visible and the
\* locks are released.
RCommit(p) ==
    /\ proc[p].pc = "commit"
    /\ gstock' = [gstock EXCEPT ![GlobalKeyOf(proc[p].tx)] = Row(proc[p].gdb)]
    /\ bstock' = [bstock EXCEPT ![BuildingKeyOf(proc[p].tx)] = Row(proc[p].bdb)]
    /\ locks' = Released(p)
    /\ proc' = [proc EXCEPT ![p] = [@ EXCEPT !.pc = "done", !.result = "ok"]]
    /\ UNCHANGED <<stock0, catalog>>
    /\ UNCHANGED svars

\* Two OUT calls on the key (b1, c1, not on balance), whose global and building
\* rows both hold the same stock.
RaceKeyG == <<"c1", FALSE>>
RaceKeyB == <<"b1", "c1", FALSE>>

InitRace ==
    /\ stock0 \in 0..MaxRaceStock
    /\ gstock = [EmptyGlobal EXCEPT ![RaceKeyG] = Row(stock0)]
    /\ bstock = [EmptyBuilding EXCEPT ![RaceKeyB] = Row(stock0)]
    /\ InitRequests
    /\ proc \in [Procs -> {Call(Tx(0, 0, "OUT", "c1", "b1", FALSE, q, None)) :
                              q \in 1..MaxRaceQty}]
    /\ locks = [k \in GlobalKeys \cup BuildingKeys |-> None]

\* One step of the call p.
RStep(p) ==
    \/ RValidate(p)
    \/ RLockGlobal(p)
    \/ RLockBuilding(p)
    \/ RCheck(p)
    \/ RSaveGlobal(p)
    \/ RSaveBuilding(p)
    \/ RCommit(p)

NextRace == \E p \in Procs : RStep(p)

SpecRace == InitRace /\ [][NextRace]_vars

\* Two calls of any type on any building and balance flag: the rows of the
\* batches not on the balance sheet exist, with the same stock in each building,
\* those of the batches on the balance sheet do not exist yet.
InitLocks ==
    /\ stock0 \in 0..MaxLockStock
    /\ bstock = [k \in BuildingKeys |-> IF k[3] THEN NoRow ELSE Row(stock0)]
    /\ gstock = [k \in GlobalKeys |->
                   IF k[2] THEN NoRow ELSE Row(stock0 * Cardinality(Buildings))]
    /\ InitRequests
    /\ proc \in [Procs -> {Call(Tx(0, 0, t, "c1", b, f, q, None)) :
                              t \in {"IN", "OUT"}, b \in Buildings, f \in BOOLEAN,
                              q \in 1..MaxLockQty}]
    /\ locks = [k \in GlobalKeys \cup BuildingKeys |-> None]

\* Each call runs in its own database session and thread: a call that can take
\* a step, a lock wait included once the lock is free, eventually takes it.
SpecRaceLive ==
    InitLocks /\ [][NextRace]_vars /\ \A p \in Procs : WF_vars(RStep(p))

\* ------------------------------------- concurrent creation requests
Requesters == {"r1", "r2", "r3"}

\* A creation request that has reached form_valid.
Request(tx) ==
    [pc |-> "request", tx |-> tx, gb |-> 0, bb |-> 0, gq |-> 0, bq |-> 0,
     gdb |-> 0, bdb |-> 0, result |-> None, outcome |-> None]

\* The except clause of form_valid for a ValidationError: one that carries an
\* error dict is turned into form errors; on one that carries a plain message
\* e.message_dict raises AttributeError, which nothing catches.
HandleValidationError(has_dict) == IF has_dict THEN "form_invalid" ELSE "server_error"

\* The latest created_at given out so far.
LatestStamp ==
    LET stamps == {1} \cup {proc[p].tx.created_at : p \in DOMAIN proc}
    IN CHOOSE m \in stamps : \A x \in stamps : x <= m

\* The next value of the id sequence, which a rollback does not give back.
NextSeqId == 2 + Cardinality({p \in DOMAIN proc : proc[p].tx.id # 0})

\* form_valid up to the atomic block: a stock-out is refused when the source
\* building holds less than qty (a read of committed rows, without a lock).
IStart(p) ==
    LET tx == proc[p].tx
        bqty == Qty(bstock, BuildingKeyOf(tx))
    IN /\ proc[p].pc = "request"
       /\ proc' = [proc EXCEPT ![p] =
                     IF tx.tx_type = "OUT" /\ bqty < tx.qty
                     THEN [@ EXCEPT !.pc = "done", !.result = "insufficient_precheck",
                                    !.outcome = "form_invalid"]
                     ELSE [@ EXCEPT !.pc = "clean"]]
       /\ UNCHANGED <<gstock, bstock, locks, stock0, catalog>>
       /\ UNCHANGED svars

\* tx.full_clean(), then the pre_save of tx.save(): created_at (auto_now_add) is
\* the time of this step, which may be that of the latest stamp.
IClean(p) ==
    /\ proc[p].pc = "clean"
    /\ \E now \in {LatestStamp, LatestStamp + 1} :
          proc' = [proc EXCEPT ![p] =
                     IF FullClean(proc[p].tx) # "ok"
                     THEN [@ EXCEPT !.pc = "done", !.result = FullClean(proc[p].tx),
                                    !.outcome = HandleValidationError(TRUE)]
                     ELSE [@ EXCEPT !.pc = "insert", !.tx.created_at = now]]
    /\ UNCHANGED <<gstock, bstock, locks, stock0, catalog>>
    /\ UNCHANGED svars

\* The INSERT of tx.save(): the row takes the next id; it is visible to others
\* at commit.  apply_transaction(tx) is entered next.
IInsert(p) ==
    /\ proc[p].pc = "insert"
    /\ proc' = [proc EXCEPT ![p] = [@ EXCEPT !.pc = "start", !.tx.id = NextSeqId]]
    /\ UNCHANGED <<gstock, bstock, locks, stock0, catalog>>
    /\ UNCHANGED svars

\* The atomic block of form_valid ends: the ledger row and the aggregate rows
\* written become visible, the locks are released, the request is redirected.
ICommit(p) ==
    /\ proc[p].pc = "commit"
    /\ gstock' = [gstock EXCEPT ![GlobalKeyOf(proc[p].tx)] = Row(proc[p].gdb)]
    /\ bstock' = [bstock EXCEPT ![BuildingKeyOf(proc[p].tx)] = Row(proc[p].bdb)]
    /\ ledger' = Append(ledger, proc[p].tx)
    /\ locks' = Released(p)
    /\ proc' = [proc EXCEPT ![p] =
                  [@ EXCEPT !.pc = "done", !.result = "ok", !.outcome = "redirect"]]
    /\ UNCHANGED <<stock0, catalog, hooked, last, prevLive, edits>>

\* apply_transaction raised its ValidationError (a plain message) through the
\* atomic block, which rolled back: the except clause of form_valid runs.
IHandleError(p) ==
    /\ proc[p].pc = "done"
    /\ proc[p].outcome = None
    /\ proc' = [proc EXCEPT ![p] = [@ EXCEPT !.outcome = HandleValidationError(FALSE)]]
    /\ UNCHANGED <<gstock, bstock, locks, stock0, catalog>>
    /\ UNCHANGED svars

\* Whether every creation request has been answered.
IngestDone == \A p \in DOMAIN proc : proc[p].pc = "done" /\ proc[p].outcome # None

\* One step of the creation request p.
IStep(p) ==
    \/ IStart(p)
    \/ IClean(p)
    \/ IInsert(p)
    \/ RValidate(p)
    \/ RLockGlobal(p)
    \/ RLockBuilding(p)
    \/ RCheck(p)
    \/ RSaveGlobal(p)
    \/ RSaveBuilding(p)
    \/ ICommit(p)
    \/ IHandleError(p)

\* One stock-in of stock0 has been served; two stock-out requests and one
\* stock-in request for the same key are under way.
InitIngest ==
    /\ stock0 \in 1..MaxIngestStock
    /\ gstock = [EmptyGlobal EXCEPT ![RaceKeyG] = Row(stock0)]
    /\ bstock = [EmptyBuilding EXCEPT ![RaceKeyB] = Row(stock0)]
    /\ ledger = <<Tx(1, 1, "IN", "c1", "b1", FALSE, stock0, None)>>
    /\ hooked = FALSE
    /\ last = Op("init", NoTx, None, None, NoDelta)
    /\ prevLive = FALSE
    /\ edits = 0
    /\ \E q1 \in 1..MaxIngestStock, q2 \in 1..MaxIngestStock, q3 \in 1..MaxIngestStock :
          proc = [p \in Requesters |->
                    IF p = "r1" THEN Request(Tx(0, 0, "OUT", "c1", "b1", FALSE, q1, "p1"))
                    ELSE IF p = "r2" THEN Request(Tx(0, 0, "OUT", "c1", "b1", FALSE, q2, "p1"))
                    ELSE Request(Tx(0, 0, "IN", "c1", "b1", FALSE, q3, None))]
    /\ catalog = FullCatalog
    /\ locks = [k \in GlobalKeys \cup BuildingKeys |-> None]

\* The requests run concurrently; rebuild_stock is run once all are answered.
NextIngest ==
    \/ \E p \in Requesters : IStep(p)
    \/ \E dry_run \in BOOLEAN : IngestDone /\ Rebuild(dry_run)

SpecIngest == InitIngest /\ [][NextIngest]_vars

\* ------------------------ rebuild next to a concurrent creation request
Rebuilder == "rb"
LiveRequesters == {"r1"}

\* A run of rebuild_stock that has not started.
RebuildRun(dry_run) ==
    [pc |-> "snapshot", tx |-> NoTx, dry_run |-> dry_run,
     old_global |-> EmptyGlobal, old_building |-> EmptyBuilding,
     entries |-> <<>>, g |-> EmptyGlobal, b |-> EmptyBuilding,
     applied |-> <<>>, result |-> None, outcome |-> None]

\* What the transaction of the run p sees of a table: its own uncommitted
\* writes on the rows it holds, the committed rows otherwise (READ COMMITTED).
Visible(p, own, committed) ==
    [k \in DOMAIN committed |-> IF locks[k] = p THEN own[k] ELSE committed[k]]

\* Lines 115-129: total = qs.count(), and the snapshots of both tables, read
\* before the atomic block.
BSnapshot ==
    LET c == proc[Rebuilder]
    IN /\ c.pc = "snapshot"
       /\ IF Len(ledger) = 0
          THEN /\ proc' = [proc EXCEPT ![Rebuilder] =
                             [@ EXCEPT !.pc = "done", !.outcome = "nothing"]]
               /\ last' = RebuildOp(c.dry_run, "nothing", NoDiff, NoDiff, 0)
               /\ prevLive' = IsLive(last)
          ELSE /\ proc' = [proc EXCEPT ![Rebuilder] =
                             [@ EXCEPT !.pc = "delete_g", !.old_global = gstock,
                                       !.old_building = bstock]]
               /\ UNCHANGED <<last, prevLive>>
       /\ UNCHANGED <<gstock, bstock, locks, stock0, catalog, ledger, hooked, edits>>

\* Line 143: GlobalStock.objects.all().delete().  The DELETE takes the lock of
\* every committed row, waiting for those another transaction holds; a row
\* another transaction has inserted and not committed is not seen.
BDeleteGlobal ==
    LET c == proc[Rebuilder]
    IN /\ c.pc = "delete_g"
       /\ \A k \in Rows(gstock) : CanLock(Rebuilder, k)
       /\ locks' = [k \in DOMAIN locks |->
                      IF k \in Rows(gstock) THEN Rebuilder ELSE locks[k]]
       /\ proc' = [proc EXCEPT ![Rebuilder] =
                     [@ EXCEPT !.pc = "delete_b", !.g = DeleteAll(gstock)]]
       /\ UNCHANGED <<gstock, bstock, stock0, catalog>>
       /\ UNCHANGED svars

\* Line 144: BuildingStock.objects.all().delete().
BDeleteBuilding ==
    LET c == proc[Rebuilder]
    IN /\ c.pc = "delete_b"
       /\ \A k \in Rows(bstock) : CanLock(Rebuilder, k)
       /\ locks' = [k \in DOMAIN locks |->
                      IF k \in Rows(bstock) THEN Rebuilder ELSE locks[k]]
       /\ proc' = [proc EXCEPT ![Rebuilder] =
                     [@ EXCEPT !.pc = "read", !.b = DeleteAll(bstock)]]
       /\ UNCHANGED <<gstock, bstock, stock0, catalog>>
       /\ UNCHANGED svars

\* Line 149: qs.iterator() runs the ledger query: the rows committed by now, in
\* the order of lines 102-113.
BReadLedger ==
    /\ proc[Rebuilder].pc = "read"
    /\ proc' = [proc EXCEPT ![Rebuilder] =
                  [@ EXCEPT !.pc = "replay", !.entries = OrderedLedger(ledger)]]
    /\ UNCHANGED <<gstock, bstock, locks, stock0, catalog>>
    /\ UNCHANGED svars

\* Lines 149-182, one turn of the loop: apply_transaction(tx) inside the
\* transaction of the run.  Its get_or_create calls wait for the rows another
\* transaction holds, read a row committed since the deletes as it is, and
\* create the row when there is none.  A ValidationError becomes a CommandError,
\* which rolls the transaction back (lines 266-269).
BReplay ==
    LET c == proc[Rebuilder]
        tx == Head(c.entries)
        gk == GlobalKeyOf(tx)
        bk == BuildingKeyOf(tx)
        r == ApplyTransaction(Visible(Rebuilder, c.g, gstock),
                              Visible(Rebuilder, c.b, bstock), tx)
    IN /\ c.pc = "replay"
       /\ c.entries # <<>>
       /\ ValidateTx(tx) = None => (CanLock(Rebuilder, gk) /\ CanLock(Rebuilder, bk))
       /\ IF r.ok
          THEN /\ proc' = [proc EXCEPT ![Rebuilder] =
                             [@ EXCEPT !.entries = Tail(c.entries), !.g = r.g, !.b = r.b,
                                       !.applied = Append(c.applied, tx.id)]]
               /\ locks' = [locks EXCEPT ![gk] = Rebuilder, ![bk] = Rebuilder]
               /\ UNCHANGED <<last, prevLive>>
          ELSE /\ proc' = [proc EXCEPT ![Rebuilder] =
                             [@ EXCEPT !.pc = "done", !.outcome = "CommandError",
                                       !.result = r.msg]]
               /\ locks' = Released(Rebuilder)
               /\ last' = RebuildOp(c.dry_run, "CommandError", NoDiff, NoDiff, tx.id)
               /\ prevLive' = IsLive(last)
       /\ UNCHANGED <<gstock, bstock, stock0, catalog, ledger, hooked, edits>>

\* Lines 185-260 once the loop has ended: the new snapshots and the diffs, then
\* the transaction is rolled back (dry run) or committed: the deletes and the
\* rows written become visible and the locks are released.
BCommit ==
    LET c == proc[Rebuilder]
        new_global == Visible(Rebuilder, c.g, gstock)
        new_building == Visible(Rebuilder, c.b, bstock)
    IN /\ c.pc = "replay"
       /\ c.entries = <<>>
       /\ gstock' = SetRollback(c.dry_run, gstock, new_global)
       /\ bstock' = SetRollback(c.dry_run, bstock, new_building)
       /\ locks' = Released(Rebuilder)
       /\ proc' = [proc EXCEPT ![Rebuilder] =
                     [@ EXCEPT !.pc = "done",
                               !.outcome = IF c.dry_run THEN "dry_run" ELSE "live"]]
       /\ last' = [RebuildOp(c.dry_run, IF c.dry_run THEN "dry_run" ELSE "live",
                             Diff(c.old_global, new_global),
                             Diff(c.old_building, new_building), 0)
                     EXCEPT !.applied = c.applied,
                            !.gremoved = RemovedDetail(c.old_global, new_global),
                            !.bremoved = RemovedDetail(c.old_building, new_building)]
       /\ prevLive' = IsLive(last)
       /\ UNCHANGED <<stock0, catalog, ledger, hooked, edits>>

\* One step of the rebuild run.
BStep ==
    \/ BSnapshot
    \/ BDeleteGlobal
    \/ BDeleteBuilding
    \/ BReadLedger
    \/ BReplay
    \/ BCommit

\* One stock-in of stock0 for the off-balance batch of b1 is in the ledger and
\* the rows of that batch hold it, or more (rows out of step with the ledger
\* are what the command is run for).  A rebuild starts while a request for b1
\* is under way, for that batch or for the on-balance batch, which has no rows.
InitLive ==
    /\ stock0 \in 1..MaxLiveStock
    /\ \E drift \in 0..MaxDrift :
          /\ gstock = [EmptyGlobal EXCEPT ![RaceKeyG] = Row(stock0 + drift)]
          /\ bstock = [EmptyBuilding EXCEPT ![RaceKeyB] = Row(stock0 + drift)]
    /\ ledger = <<Tx(1, 1, "IN", "c1", "b1", FALSE, stock0, None)>>
    /\ hooked = FALSE
    /\ last = Op("init", NoTx, None, None, NoDelta)
    /\ prevLive = FALSE
    /\ edits = 0
    /\ \E t \in {"IN", "OUT"}, f \in BOOLEAN, q \in 1..MaxLiveQty, dry_run \in BOOLEAN :
          proc = [p \in LiveRequesters \cup {Rebuilder} |->
                    IF p = Rebuilder THEN RebuildRun(dry_run)
                    ELSE Request(Tx(0, 0, t, "c1", "b1", f, q,
                                    IF t = "OUT" THEN "p1" ELSE None))]
    /\ catalog = FullCatalog
    /\ locks = [k \in GlobalKeys \cup BuildingKeys |-> None]

NextLive ==
    \/ \E p \in LiveRequesters : IStep(p)
    \/ BStep

SpecLive == InitLive /\ [][NextLive]_vars

\* ------------------------------------------------------------- claims
RECURSIVE SumOverBuildings(_, _, _)
\* The sum of BuildingStock qty over the buildings bs for a (cartridge, flag).
SumOverBuildings(b, gk, bs) ==
    IF bs = {} THEN 0
    ELSE LET x == CHOOSE y \in bs : TRUE
         IN Qty(b, <<x, gk[1], gk[2]>>) + SumOverBuildings(b, gk, bs \ {x})

\* C1: after any sequence of apply_transaction calls, accepted or rejected, the
\* GlobalStock qty of every (cartridge, on_balance) pair equals the sum of the
\* BuildingStock qty over all buildings for that pair, an absent row being 0.
C1_Conservation ==
    \A gk \in GlobalKeys : Qty(gstock, gk) = SumOverBuildings(bstock, gk, Buildings)

\* A rejected call has just returned while both buildings hold stock of one pair.
C1_Witness ==
    /\ last.op = "apply"
    /\ last.outcome # "ok"
    /\ \E c \in Cartridges, f \in BOOLEAN :
          /\ Qty(bstock, <<"b1", c, f>>) > 0
          /\ Qty(bstock, <<"b2", c, f>>) > 0

\* C2: in every state reached by creation requests (each calling
\* apply_transaction), rebuilds and manual edits within the column's domain,
\* states after a rejected call included, no aggregate row has a negative qty.
C2_NonNegative ==
    /\ \A k \in GlobalKeys : gstock[k].qty >= 0
    /\ \A k \in BuildingKeys : bstock[k].qty >= 0

\* A rebuild has just been stopped by an OUT entry its replay could not cover.
C2_Witness ==
    /\ last.op = "rebuild"
    /\ last.outcome = "CommandError"
    /\ Rows(bstock) # {}

\* The messages of an insufficient-stock rejection.
InsufficientMsgs == {"insufficient_global", "insufficient_building"}

\* Whether every concurrent call has ended.
AllDone == \A p \in Procs : proc[p].pc = "done"

\* C3: two concurrent OUT calls of qty 6 on one key holding exactly 10 in both
\* aggregates: no interleaving makes a qty negative, and once both have ended
\* exactly one succeeded, the other failed for insufficient stock, and both
\* aggregates hold 4.
C3_RaceSafety ==
    (stock0 = 10 /\ \A p \in Procs : proc[p].tx.qty = 6)
        => /\ gstock[RaceKeyG].qty >= 0
           /\ bstock[RaceKeyB].qty >= 0
           /\ AllDone
                 => /\ Cardinality({p \in Procs : proc[p].result = "ok"}) = 1
                    /\ Cardinality({p \in Procs : proc[p].result \in InsufficientMsgs}) = 1
                    /\ gstock[RaceKeyG] = Row(4)
                    /\ bstock[RaceKeyB] = Row(4)

\* Both calls of that race have ended, t1 being the one that was rejected.
C3_Witness ==
    /\ stock0 = 10
    /\ \A p \in Procs : proc[p].tx.qty = 6
    /\ AllDone
    /\ proc["t1"].result = "insufficient_global"
    /\ proc["t2"].result = "ok"

\* C4: a call rejected for insufficient stock, at the global or at the building
\* level, leaves the GlobalStock and the BuildingStock table as they were.
C4_AtomicOnFailure ==
    [][(last'.op = "apply" /\ last'.msg \in InsufficientMsgs)
          => (gstock' = gstock /\ bstock' = bstock)]_vars

\* An OUT was rejected at the building level alone: the global qty covers it.
C4_Witness ==
    /\ last.op = "apply"
    /\ last.msg = "insufficient_building"
    /\ Qty(gstock, GlobalKeyOf(last.tx)) >= last.tx.qty
    /\ Qty(bstock, BuildingKeyOf(last.tx)) < last.tx.qty

\* A transaction with cartridge set, building set and qty > 0.
WellFormed(tx) == tx.cartridge # None /\ tx.building # None /\ tx.qty > 0

\* C5: an OUT call with valid fields succeeds exactly when the global and the
\* building qty of its key are both at least tx.qty, and then both go down by
\* exactly tx.qty.
C5_OutIffSufficient ==
    [][(last'.op = "apply" /\ last'.tx.tx_type = "OUT" /\ WellFormed(last'.tx))
          => LET tx == last'.tx
                 gk == GlobalKeyOf(tx)
                 bk == BuildingKeyOf(tx)
             IN /\ (last'.outcome = "ok")
                      <=> (Qty(gstock, gk) >= tx.qty /\ Qty(bstock, bk) >= tx.qty)
                /\ last'.outcome = "ok"
                      => /\ gstock'[gk] = Row(Qty(gstock, gk) - tx.qty)
                         /\ bstock'[bk] = Row(Qty(bstock, bk) - tx.qty)]_vars

\* An OUT has just been accepted and left stock behind.
C5_Witness ==
    /\ last.op = "apply"
    /\ last.tx.tx_type = "OUT"
    /\ last.outcome = "ok"
    /\ last.delta.building_after > 0

\* C6: an IN call with cartridge, building and qty > 0 succeeds and adds exactly
\* tx.qty to the global and to the building row of its key, an absent row being
\* created at 0 first.
C6_InAlwaysAdds ==
    [][(last'.op = "apply" /\ last'.tx.tx_type = "IN" /\ WellFormed(last'.tx))
          => LET tx == last'.tx
                 gk == GlobalKeyOf(tx)
                 bk == BuildingKeyOf(tx)
             IN /\ last'.outcome = "ok"
                /\ gstock'[gk] = Row(Qty(gstock, gk) + tx.qty)
                /\ bstock'[bk] = Row(Qty(bstock, bk) + tx.qty)]_vars

\* An IN has just made the building row of a pair the school already stocks.
C6_Witness ==
    /\ last.op = "apply"
    /\ last.tx.tx_type = "IN"
    /\ last.outcome = "ok"
    /\ last.delta.global_before > 0
    /\ last.delta.building_before = 0
    /\ last.delta.building_after = last.tx.qty

\* C7: a call with no cartridge, no building or qty <= 0 raises a
\* ValidationError and creates, changes and removes no aggregate row.
C7_InvalidMutatesNothing ==
    [][(/\ last'.op = "apply"
        /\ \/ last'.tx.cartridge = None
           \/ last'.tx.building = None
           \/ last'.tx.qty <= 0)
          => /\ last'.outcome = "ValidationError"
             /\ last'.msg \in {"no_cartridge", "no_building", "bad_qty"}
             /\ gstock' = gstock
             /\ bstock' = bstock]_vars

\* A call with qty = 0 was rejected while the tables hold rows.
C7_Witness ==
    /\ last.op = "apply"
    /\ last.tx.qty = 0
    /\ last.msg = "bad_qty"
    /\ Rows(gstock) # {}

\* The signed quantity of a ledger entry: IN adds, OUT subtracts.
Signed(e) == IF e.tx_type = "IN" THEN e.qty ELSE 0 - e.qty

RECURSIVE NetGlobalUpTo(_, _, _)
\* The net sum of the first n ledger entries of the global key gk.
NetGlobalUpTo(led, n, gk) ==
    IF n = 0 THEN 0
    ELSE NetGlobalUpTo(led, n - 1, gk)
         + (IF GlobalKeyOf(led[n]) = gk THEN Signed(led[n]) ELSE 0)

RECURSIVE NetBuildingUpTo(_, _, _)
\* The net sum of the first n ledger entries of the building key bk.
NetBuildingUpTo(led, n, bk) ==
    IF n = 0 THEN 0
    ELSE NetBuildingUpTo(led, n - 1, bk)
         + (IF BuildingKeyOf(led[n]) = bk THEN Signed(led[n]) ELSE 0)

NetGlobal(led, gk) == NetGlobalUpTo(led, Len(led), gk)

NetBuilding(led, bk) == NetBuildingUpTo(led, Len(led), bk)

\* C8: after a live rebuild that ran to its end over a non-empty ledger, every
\* GlobalStock and BuildingStock qty is the net sum of the ledger entries of its
\* key, and exactly the keys some ledger entry has have a row, whatever the
\* tables held before.
C8_RebuildMatchesLedger ==
    IsLive(last) =>
        /\ ledger # <<>>
        /\ \A gk \in GlobalKeys :
              /\ Qty(gstock, gk) = NetGlobal(ledger, gk)
              /\ gk \in Rows(gstock)
                    <=> \E i \in 1..Len(ledger) : GlobalKeyOf(ledger[i]) = gk
        /\ \A bk \in BuildingKeys :
              /\ Qty(bstock, bk) = NetBuilding(ledger, bk)
              /\ bk \in Rows(bstock)
                    <=> \E i \in 1..Len(ledger) : BuildingKeyOf(ledger[i]) = bk

\* A live rebuild over a full ledger, after a manual edit, brought a row back to
\* its ledger value.
C8_Witness ==
    /\ IsLive(last)
    /\ edits > 0
    /\ \/ last.bdiff.changed_qty > 0
       \/ last.gdiff.changed_qty > 0
    /\ Len(ledger) = MaxLedger

\* C9 (as claimed): after a live rebuild that raised no error, over the empty
\* ledger too, neither aggregate table holds a row.
C9_LiveRebuildWipes ==
    (last.op = "rebuild" /\ ~last.dry_run /\ last.outcome # "CommandError")
        => (ledger = <<>> => Rows(gstock) = {} /\ Rows(bstock) = {})

ZeroDiff == DiffStats(0, 0, 0)

\* C10: a live rebuild run right after a live rebuild leaves both tables as the
\* first run left them, and the diff it reports is added = 0, removed = 0,
\* changed_qty = 0 for both tables.
C10_RebuildIdempotent ==
    [][(last.op = "rebuild" /\ ~last.dry_run /\ last'.op = "rebuild" /\ ~last'.dry_run)
          => /\ gstock' = gstock
             /\ bstock' = bstock
             /\ last'.outcome = last.outcome
             /\ last'.outcome = "live" => (last'.gdiff = ZeroDiff /\ last'.bdiff = ZeroDiff)]_vars

\* The second of two live rebuilds in a row has ended, the first having had a
\* manual edit to repair.
C10_Witness ==
    /\ IsLive(last)
    /\ prevLive
    /\ edits > 0
    /\ last.gdiff = ZeroDiff
    /\ last.bdiff = ZeroDiff

\* C11: a dry-run rebuild leaves both aggregate tables as they were, and a live
\* rebuild run right after it, from the same tables and ledger, ends the same
\* way and reports the same diff for both tables.
C11_DryRunNoChange ==
    [][/\ (last'.op = "rebuild" /\ last'.dry_run)
             => (gstock' = gstock /\ bstock' = bstock)
       /\ (last.op = "rebuild" /\ last.dry_run /\ last'.op = "rebuild" /\ ~last'.dry_run)
             => /\ (last.outcome = "dry_run") <=> (last'.outcome = "live")
                /\ last'.gdiff = last.gdiff
                /\ last'.bdiff = last.bdiff]_vars

\* A dry run has just reported rows it would change or delete, after a manual
\* edit, and the edited tables are still there.
C11_Witness ==
    /\ last.op = "rebuild"
    /\ last.dry_run
    /\ last.outcome = "dry_run"
    /\ edits > 0
    /\ last.bdiff.changed_qty + last.bdiff.removed + last.gdiff.changed_qty > 0

\* Whether the OUT or IN entry i of the ledger is covered by the net stock of
\* the entries before it.  (The ledger of the creation requests is in
\* ascending (created_at, id) order.)
Covered(led, i) ==
    \/ led[i].tx_type = "IN"
    \/ /\ NetGlobalUpTo(led, i - 1, GlobalKeyOf(led[i])) >= led[i].qty
       /\ NetBuildingUpTo(led, i - 1, BuildingKeyOf(led[i])) >= led[i].qty

\* The position of the first entry that is not covered, or 0.
FirstUncovered(led) ==
    IF \A i \in 1..Len(led) : Covered(led, i) THEN 0
    ELSE CHOOSE i \in 1..Len(led) :
            ~Covered(led, i) /\ \A j \in 1..(i - 1) : Covered(led, j)

\* C12: a rebuild, live or dry, fails exactly when some ledger entry cannot be
\* applied; it then reports the id of the first such entry, completes no
\* replay, and leaves both aggregate tables as they were before it started.
C12_RebuildFailureRollsBack ==
    [][(last'.op = "rebuild")
          => /\ (last'.outcome = "CommandError") <=> (FirstUncovered(ledger) # 0)
             /\ last'.outcome = "CommandError"
                   => /\ last'.failed_id = ledger[FirstUncovered(ledger)].id
                      /\ last'.applied = <<>>
                      /\ gstock' = gstock
                      /\ bstock' = bstock]_vars

\* A live rebuild has just failed at the second ledger entry while the tables
\* held rows.
C12_Witness ==
    /\ last.op = "rebuild"
    /\ ~last.dry_run
    /\ last.outcome = "CommandError"
    /\ Len(ledger) = 2
    /\ last.failed_id = ledger[2].id
    /\ Rows(gstock) # {}
    /\ Rows(bstock) # {}

\* C14: a creation request either is redirected, and then exactly one row was
\* added to the ledger and the global and the building row of that entry moved
\* by its signed qty, or ends otherwise, and then neither the ledger nor any
\* aggregate row changed.
C14_LedgerAndAggregatesTogether ==
    [][(last'.op \in {"stock_in", "stock_out"})
          => \/ /\ last'.outcome # "redirect"
                /\ ledger' = ledger
                /\ gstock' = gstock
                /\ bstock' = bstock
             \/ /\ last'.outcome = "redirect"
                /\ Len(ledger') = Len(ledger) + 1
                /\ SubSeq(ledger', 1, Len(ledger)) = ledger
                /\ LET e == ledger'[Len(ledger')]
                       gk == GlobalKeyOf(e)
                       bk == BuildingKeyOf(e)
                   IN /\ e.tx_type = (IF last'.op = "stock_in" THEN "IN" ELSE "OUT")
                      /\ gstock' = [gstock EXCEPT ![gk] = Row(Qty(gstock, gk) + Signed(e))]
                      /\ bstock' = [bstock EXCEPT ![bk] = Row(Qty(bstock, bk) + Signed(e))]]_vars

\* A stock-out request that passed the pre-check has just failed inside
\* apply_transaction, with entries in the ledger.
C14_Witness ==
    /\ last.op = "stock_out"
    /\ last.msg = "insufficient_global"
    /\ ledger # <<>>

\* The rows a table holds when it is derived from the ledger: a row for every
\* key some entry has, at the net sum of the entries of that key.
LedgerGlobal(led) ==
    [gk \in GlobalKeys |->
        IF \E i \in 1..Len(led) : GlobalKeyOf(led[i]) = gk
        THEN Row(NetGlobal(led, gk)) ELSE NoRow]

LedgerBuilding(led) ==
    [bk \in BuildingKeys |->
        IF \E i \in 1..Len(led) : BuildingKeyOf(led[i]) = bk
        THEN Row(NetBuilding(led, bk)) ELSE NoRow]

\* added, removed and changed_qty counted from the keys of a table before (old)
\* and after (new).
ExactDiff(old, new) ==
    [added |-> Cardinality({k \in DOMAIN new : new[k].has /\ ~old[k].has}),
     removed |-> Cardinality({k \in DOMAIN old : old[k].has /\ ~new[k].has}),
     changed_qty |-> Cardinality({k \in DOMAIN old :
                                     old[k].has /\ new[k].has /\ old[k].qty # new[k].qty})]

\* C17: the diff a completed rebuild reports is exact for each table: added,
\* removed and changed_qty count the keys absent before and present after,
\* present before and absent after, and present in both with another qty; the
\* removal detail lists exactly the removed keys with the qty they had before.
\* (After is the ledger-derived table, which a live run leaves and a dry run
\* discards.)
C17_DiffExact ==
    [][(last'.op = "rebuild" /\ last'.outcome \in {"live", "dry_run"})
          => /\ last'.gdiff = ExactDiff(gstock, LedgerGlobal(ledger))
             /\ last'.bdiff = ExactDiff(bstock, LedgerBuilding(ledger))
             /\ last'.gremoved =
                   {<<k, gstock[k].qty>> : k \in {x \in GlobalKeys :
                        gstock[x].has /\ ~LedgerGlobal(ledger)[x].has}}
             /\ last'.bremoved =
                   {<<k, bstock[k].qty>> : k \in {x \in BuildingKeys :
                        bstock[x].has /\ ~LedgerBuilding(ledger)[x].has}}
             /\ last'.outcome = "live"
                   => (gstock' = LedgerGlobal(ledger) /\ bstock' = LedgerBuilding(ledger))]_vars

\* A live rebuild over a full ledger has just deleted a building row no ledger
\* entry supports, listing it with the qty it held.
C17_Witness ==
    /\ IsLive(last)
    /\ last.bdiff.removed = 1
    /\ \E d \in last.bremoved : d[2] = MaxStock
    /\ Len(ledger) = MaxLedger

\* C19: an accepted call returns, for both aggregates, before = the qty of the
\* row when the call read it (0 for a row it had to create), after = the qty
\* the call stored, and after = before + qty for IN, before - qty for OUT.
C19_DeltaReportsBeforeAfter ==
    [][(last'.op = "apply" /\ last'.outcome = "ok")
          => LET tx == last'.tx
                 d == last'.delta
                 gk == GlobalKeyOf(tx)
                 bk == BuildingKeyOf(tx)
             IN /\ d.global_before = Qty(gstock, gk)
                /\ d.building_before = Qty(bstock, bk)
                /\ gstock'[gk] = Row(d.global_after)
                /\ bstock'[bk] = Row(d.building_after)
                /\ d.global_after = d.global_before + Signed(tx)
                /\ d.building_after = d.building_before + Signed(tx)]_vars

\* An OUT has just been accepted on a key whose global qty was above the
\* building qty, so the four values of the delta differ.
C19_Witness ==
    /\ last.op = "apply"
    /\ last.outcome = "ok"
    /\ last.tx.tx_type = "OUT"
    /\ last.delta.global_before > last.delta.building_before
    /\ last.delta.building_after > 0

\* The messages of the precondition and type rejections.
ValidationMsgs == {"no_cartridge", "no_building", "bad_qty", "unknown_type"}

\* C20 (as claimed): the kind of the error raised for insufficient stock
\* differs from the kind of the error raised for a malformed transaction.
C20_FailureKindsDiffer ==
    [][(/\ last.op = "apply"
        /\ last'.op = "apply"
        /\ last.msg \in InsufficientMsgs
        /\ last'.msg \in ValidationMsgs)
          => last'.outcome # last.outcome]_vars

\* A call that holds a building row lock holds the global row lock of its key.
LockOrder ==
    \A p \in Procs :
        (\E bk \in BuildingKeys : locks[bk] = p)
            => locks[GlobalKeyOf(proc[p].tx)] = p

\* C18: every call takes the GlobalStock row lock before the BuildingStock row
\* lock, concurrent calls on the same or on different keys never deadlock (some
\* call can step until all have ended), and every call eventually ends, by
\* commit or by rejection.
C18_NoDeadlock ==
    /\ []LockOrder
    /\ [](AllDone \/ ENABLED NextRace)
    /\ <>(AllDone /\ \A p \in Procs :
              proc[p].result \in {"ok"} \cup InsufficientMsgs \cup ValidationMsgs)

\* The call t1 waits for the global row lock that t2 holds, t2 being about to
\* take the lock of a row of another building.
C18_Witness ==
    /\ proc["t1"].pc = "lock_g"
    /\ proc["t2"].pc = "lock_b"
    /\ locks[GlobalKeyOf(proc["t1"].tx)] = "t2"
    /\ proc["t1"].tx.building # proc["t2"].tx.building

\* C13 (as claimed): a rebuild over a ledger that only creation requests wrote,
\* in any interleaving, never fails.
C13_IngestedLedgerReplays ==
    (last.op = "rebuild") => (last.outcome # "CommandError")

\* C15 (as claimed): a creation request in which apply_transaction raised ends
\* in the form-redisplay outcome.
C15_ApplyFailureRecovered ==
    \A p \in DOMAIN proc :
        (proc[p].result \in InsufficientMsgs \cup ValidationMsgs /\ proc[p].outcome # None)
            => proc[p].outcome = "form_invalid"

\* Whether entry x precedes entry y in ascending (created_at, id) order.
Earlier(x, y) ==
    x.created_at < y.created_at \/ (x.created_at = y.created_at /\ x.id < y.id)

\* The ledger entry of an id.
EntryOf(led, id) == CHOOSE e \in {led[i] : i \in 1..Len(led)} : e.id = id

C21_CrossBuildingIssuance ==
    [][(last'.op = "stock_out" /\ last'.outcome = "redirect") =>
         LET e == ledger'[Len(ledger')]
             k == <<e.building, e.cartridge, e.on_balance>>
         IN /\ Len(ledger') = Len(ledger) + 1
            /\ e.tx_type = "OUT" /\ e.printer # None
            /\ e.building = IF last'.source # None THEN last'.source
                             ELSE PrinterBuilding(e.printer)
            /\ bstock[k].has /\ bstock'[k] = Row(bstock[k].qty - e.qty)
            /\ \A o \in BuildingKeys \ {k} : bstock'[o] = bstock[o]]_vars

\* An issuance to a printer of b1 was served from the stock of b2 while b1
\* had stock of the same batch.
C21_Witness ==
    /\ last.op = "stock_out" /\ last.outcome = "redirect"
    /\ last.source = "b2"
    /\ Len(ledger) > 0
    /\ ledger[Len(ledger)].printer = "p1"
    /\ ledger[Len(ledger)].building = "b2"
    /\ Qty(bstock, <<"b1", "c1", FALSE>>) > 0

\* C22: saving a StockTransaction row that exists changes no aggregate row,
\* whether or not the post_save receiver is connected.
C22_ResaveChangesNothing ==
    [][last'.op = "backfill" => (gstock' = gstock /\ bstock' = bstock)]_vars

\* The backfill command saved every row of a full ledger again, with the
\* receiver connected and stock in the tables.
C22_Witness ==
    /\ last.op = "backfill" /\ ~last.dry_run /\ hooked
    /\ Len(last.applied) = MaxLedger
    /\ Rows(gstock) # {} /\ Rows(bstock) # {}

\* What C23 says clean() accepts.
CleanAccepts(tx) ==
    /\ tx.qty # 0
    /\ tx.tx_type = "OUT" => tx.printer # None
    /\ (tx.printer # None /\ tx.cartridge # None) =>
          PrinterModelOf(tx.printer) \in CompatiblePrinters(tx.cartridge)

\* C23: clean() accepts a record exactly when its qty is not 0, it has a
\* printer if it is an OUT, and the printer's model is compatible with the
\* cartridge when both are set.
C23_CleanAcceptsIff ==
    last.op = "clean" => (last.outcome = "ok" <=> CleanAccepts(last.tx))

\* The second part of C23: every stock-out in the ledger has a printer whose
\* model is compatible with its cartridge.
C23_AcceptedOutCompatible ==
    \A i \in 1..Len(ledger) :
        ledger[i].tx_type = "OUT" =>
            /\ ledger[i].printer # None
            /\ PrinterModelOf(ledger[i].printer) \in CompatiblePrinters(ledger[i].cartridge)

\* C24: every entry created by a creation request is applied exactly once: the
\* aggregates are the net sums of the ledger.
C24_AppliedExactlyOnce ==
    /\ gstock = LedgerGlobal(ledger)
    /\ bstock = LedgerBuilding(ledger)

Contribution(p, key, k) ==
    IF proc[p].result = "ok" /\ key = k THEN Signed(proc[p].tx) ELSE 0

\* C26: when two concurrent calls have both ended, every row they wrote exists
\* once and holds the initial qty plus the signed quantities of the calls that
\* succeeded on its key, also when the row did not exist and both created it.
C26_NoLostUpdate ==
    AllDone =>
      /\ \A k \in GlobalKeys :
            LET init == IF k[2] THEN 0 ELSE stock0 * Cardinality(Buildings)
                sum == Contribution("t1", GlobalKeyOf(proc["t1"].tx), k)
                         + Contribution("t2", GlobalKeyOf(proc["t2"].tx), k)
                touched == \E p \in Procs : proc[p].result = "ok"
                                               /\ GlobalKeyOf(proc[p].tx) = k
            IN /\ Qty(gstock, k) = init + sum
               /\ touched => gstock[k].has
      /\ \A k \in BuildingKeys :
            LET init == IF k[3] THEN 0 ELSE stock0
                sum == Contribution("t1", BuildingKeyOf(proc["t1"].tx), k)
                         + Contribution("t2", BuildingKeyOf(proc["t2"].tx), k)
                touched == \E p \in Procs : proc[p].result = "ok"
                                               /\ BuildingKeyOf(proc[p].tx) = k
            IN /\ Qty(bstock, k) = init + sum
               /\ touched => bstock[k].has

\* Two INs on the on-balance batch of b1, whose rows did not exist, have both
\* succeeded.
C26_Witness ==
    /\ AllDone
    /\ \A p \in Procs : /\ proc[p].result = "ok"
                        /\ proc[p].tx.tx_type = "IN"
                        /\ BuildingKeyOf(proc[p].tx) = <<"b1", "c1", TRUE>>
    /\ bstock[<<"b1", "c1", TRUE>>] = Row(2 * MaxLockQty)
    /\ gstock[<<"c1", TRUE>>] = Row(2 * MaxLockQty)

\* Whether the request and the rebuild run have both ended.
LiveDone == \A p \in DOMAIN proc : proc[p].pc = "done" /\ proc[p].outcome # None

\* C25: once a live rebuild and the request that ran next to it have both
\* ended, every aggregate qty is the net sum of the committed ledger entries of
\* its key.
C25_RebuildSafeWithIngestion ==
    (Rebuilder \in DOMAIN proc /\ LiveDone /\ proc[Rebuilder].outcome = "live") =>
        /\ \A k \in GlobalKeys : Qty(gstock, k) = NetGlobal(ledger, k)
        /\ \A k \in BuildingKeys : Qty(bstock, k) = NetBuilding(ledger, k)

====
